---- MODULE Spec2Model ----
(***************************************************************************)
(* Model of the guarded edit engine of Verification/runner/verification.py *)
(* (class GuardedEditEngine): one call of apply_llm_edits, stage by stage. *)
(*                                                                         *)
(* Text is a sequence of atoms.  An atom is a run of characters that none  *)
(* of the engine's regular expressions can split: the newline, the space,  *)
(* the comment openers and closers, the marker keywords, the placeholder   *)
(* "???", an identifier, a denylisted token, a code fence.  Offsets count  *)
(* atoms and are 0-based with an exclusive end, as Python's slices.        *)
(*                                                                         *)
(* The regions the scan finds are the code's regions atom for atom, and so *)
(* is the merged text whenever the regions do not overlap.  When they do   *)
(* overlap, the code slices the half-merged text at offsets of the         *)
(* original template, which can fall inside a keyword; the model then      *)
(* cuts at an atom boundary, so the debris it shows differs from the       *)
(* code's in length, not in kind.                                          *)
(*                                                                         *)
(* Spec is one call on every template of MaxLines lines.  ScanSpec is the  *)
(* scan alone, CeilSpec the scan and the context builder over a range of   *)
(* timing values and clock periods, ParseSpec one call with provider       *)
(* responses of every shape, PairSpec two calls on one engine interleaved. *)
(* ContextSpec is the scan and the context builder over timing dicts of    *)
(* several entries and every form of the simulation sub-object, MergeSpec  *)
(* one call followed by a second call on the text the first returned.     *)
(* Floats keep their rounding to nearest with a mantissa of MantissaBits   *)
(* bits in place of 53.                                                    *)
(***************************************************************************)
EXTENDS Integers, Sequences, FiniteSets, TLC

(* ------------------------------ bounds -------------------------------- *)

MaxLines == 3

MaxEdits == 2

\* the longest of the short look-ahead windows the scan is tried with
MaxWindow == 3

\* the bits of a float's mantissa
MantissaBits == 8

\* the largest timing value and the largest clock period, in tenths of a nanosecond
MaxTimingTenths == 64

MaxPeriodTenths == 20

\* the most entries of a timing dict
MaxTimingEntries == 2

(* ------------------------------ atoms --------------------------------- *)

NL == "\n"

SP == " "

LineCommentOpen == "//"

BlockCommentOpen == "/*"

BlockCommentClose == "*/"

Placeholder == "???"

SingleKeyword == "@LLM_EDIT:"

BeginKeyword == "@LLM_EDIT BEGIN "

EndKeyword == "@LLM_EDIT END "

\* a code fence, three backquotes
Fence == "<fence>"

TemplateNames == {"A", "B"}

Identifiers == {"A", "B", "Z", "x", "y", "sv", "json"}

IsSpace(a) == a \in {NL, SP}

(* ------------------------- Python str helpers ------------------------- *)

Min(a, b) == IF a < b THEN a ELSE b

Max(a, b) == IF a > b THEN a ELSE b

Clamp(i, n) == Max(0, Min(i, n))

\* s[a:b] for a, b >= 0: both ends are clamped to len(s), an inverted slice is empty
Slice(s, a, b) == SubSeq(s, Clamp(a, Len(s)) + 1, Clamp(b, Len(s)))

\* s[a:]
SliceFrom(s, a) == Slice(s, a, Len(s))

\* sub in s, for a token that is one atom
Contains(s, a) == \E i \in 1..Len(s) : s[i] = a

RECURSIVE LStrip(_)
LStrip(s) == IF s # <<>> /\ IsSpace(Head(s)) THEN LStrip(Tail(s)) ELSE s

RECURSIVE RStrip(_)
RStrip(s) ==
    IF s # <<>> /\ IsSpace(s[Len(s)]) THEN RStrip(SubSeq(s, 1, Len(s) - 1)) ELSE s

Strip(s) == LStrip(RStrip(s))

(* --------------------- lines and the marker regexes -------------------- *)

\* '^' under re.MULTILINE: offset p is the start of the text or follows a newline
IsLineStart(text, p) == p = 0 \/ text[p] = NL

\* '$' under re.MULTILINE: the first offset >= p that is the end of the text or
\* stands before a newline
RECURSIVE LineEnd(_, _)
LineEnd(text, p) ==
    IF p >= Len(text) \/ text[p + 1] = NL THEN p ELSE LineEnd(text, p + 1)

NoSpaces(s) == SelectSeq(s, LAMBDA a : a # SP)

\* ^[ \t]*//[ \t]*<keyword>[ \t]*([A-Za-z0-9_]+)[ \t]*$ at line start p
MarkerAt(text, p, keyword) ==
    LET line == NoSpaces(Slice(text, p, LineEnd(text, p)))
    IN  /\ IsLineStart(text, p)
        /\ Len(line) = 3
        /\ line[1] = LineCommentOpen
        /\ line[2] = keyword
        /\ line[3] \in Identifiers

MarkerName(text, p) == NoSpaces(Slice(text, p, LineEnd(text, p)))[3]

\* re.finditer: the matches in text order, each [start, end, name]
RECURSIVE FindIter(_, _, _)
FindIter(text, keyword, p) ==
    IF p > Len(text) THEN <<>>
    ELSE IF MarkerAt(text, p, keyword)
         THEN <<[start |-> p, end |-> LineEnd(text, p), name |-> MarkerName(text, p)]>>
              \o FindIter(text, keyword, LineEnd(text, p) + 1)
         ELSE FindIter(text, keyword, p + 1)

SINGLE_LINE_RE(text) == FindIter(text, SingleKeyword, 0)

BLOCK_BEGIN_RE(text) == FindIter(text, BeginKeyword, 0)

\* BLOCK_END_RE.search(text, pos): the first END line at or after pos, <<>> if none
BLOCK_END_RE_search(text, pos) ==
    LET ms == SelectSeq(FindIter(text, EndKeyword, 0), LAMBDA m : m.start >= pos)
    IN  IF ms = <<>> THEN <<>> ELSE <<Head(ms)>>

(* --------------------------- _find_regions ----------------------------- *)

\* text[insert_pos:insert_pos + 600]
LookAheadWindow == 600

\* '.*' under re.DOTALL from offset k of the window: '.' matches the newline too,
\* so the greedy run reaches the end of the window
DotStarEnd(look, k) == Len(look)

\* //.*\?\?\?.*   (-1: no match at k)
AltLinePlaceholder(look, k) ==
    IF /\ look[k + 1] = LineCommentOpen
       /\ \E j \in (k + 2)..DotStarEnd(look, k + 1) : look[j] = Placeholder
    THEN DotStarEnd(look, k + 1) ELSE -1

\* the offsets after a closing */ that the two greedy '.*' of a block comment
\* can end at, needing a ??? in between or not
BlockCloseEnds(look, k, needPlaceholder) ==
    {q \in (k + 2)..DotStarEnd(look, k + 1) :
        /\ look[q] = BlockCommentClose
        /\ needPlaceholder => \E j \in (k + 2)..(q - 1) : look[j] = Placeholder}

SetMax(S) == CHOOSE m \in S : \A n \in S : n <= m

\* /\*.*\?\?\?.*\*/
AltBlockPlaceholder(look, k) ==
    IF look[k + 1] = BlockCommentOpen /\ BlockCloseEnds(look, k, TRUE) # {}
    THEN SetMax(BlockCloseEnds(look, k, TRUE)) ELSE -1

\* //.*
AltLineComment(look, k) ==
    IF look[k + 1] = LineCommentOpen THEN DotStarEnd(look, k + 1) ELSE -1

\* /\*.*\*/
AltBlockComment(look, k) ==
    IF look[k + 1] = BlockCommentOpen /\ BlockCloseEnds(look, k, FALSE) # {}
    THEN SetMax(BlockCloseEnds(look, k, FALSE)) ELSE -1

\* \s
AltSpace(look, k) == IF IsSpace(look[k + 1]) THEN k + 1 ELSE -1

\* one iteration of (?:...|...|...|...|\s): the first alternative that matches
GroupStep(look, k) ==
    IF k >= Len(look) THEN -1
    ELSE IF AltLinePlaceholder(look, k) >= 0 THEN AltLinePlaceholder(look, k)
    ELSE IF AltBlockPlaceholder(look, k) >= 0 THEN AltBlockPlaceholder(look, k)
    ELSE IF AltLineComment(look, k) >= 0 THEN AltLineComment(look, k)
    ELSE IF AltBlockComment(look, k) >= 0 THEN AltBlockComment(look, k)
    ELSE AltSpace(look, k)

RECURSIVE GroupStar(_, _)
GroupStar(look, k) ==
    IF GroupStep(look, k) < 0 THEN k ELSE GroupStar(look, GroupStep(look, k))

RECURSIVE SpaceStar(_, _)
SpaceStar(look, k) ==
    IF k < Len(look) /\ IsSpace(look[k + 1]) THEN SpaceStar(look, k + 1) ELSE k

\* re.match(r"(\s*(?:...)*)", look_ahead, re.DOTALL).end(); the pattern matches
\* the empty string, so the match never fails
ReplSpanEnd(look) == GroupStar(look, SpaceStar(look, 0))

EditRegion(name, kind, start, end, text) ==
    [name |-> name, kind |-> kind, start_idx |-> start, end_idx |-> end,
     original_text |-> Slice(text, start, end)]

\* BlockRegion taking the first later END line of the BEGIN's name, other END
\* lines passed over
BlockRegionOfNamedEnd(text, m_begin) ==
    LET ms == SelectSeq(FindIter(text, EndKeyword, 0),
                        LAMBDA m : m.start >= m_begin.end /\ m.name = m_begin.name)
    IN  IF ms = <<>> THEN <<>>
        ELSE <<EditRegion(m_begin.name, "block", m_begin.end, Head(ms).start, text)>>

\* the body of the loop over BLOCK_BEGIN_RE matches: <<>> when the BEGIN has no
\* END of its name as the next END line
BlockRegion(text, m_begin) ==
    LET m_end == BLOCK_END_RE_search(text, m_begin.end)
    IN  IF m_end = <<>> \/ m_end[1].name # m_begin.name THEN <<>>
        ELSE <<EditRegion(m_begin.name, "block", m_begin.end, m_end[1].start, text)>>

\* BlockLoop with the raise lost: an unmatched BEGIN is passed over
RECURSIVE BlockLoopSkipping(_, _, _)
BlockLoopSkipping(text, begins, acc) ==
    IF begins = <<>> THEN [err |-> "none", arg |-> "", regions |-> acc]
    ELSE BlockLoopSkipping(text, Tail(begins), acc \o BlockRegion(text, Head(begins)))

\* the loop over the BEGIN matches, stopping at the first raise
RECURSIVE BlockLoop(_, _, _)
BlockLoop(text, begins, acc) ==
    IF begins = <<>> THEN [err |-> "none", arg |-> "", regions |-> acc]
    ELSE IF BlockRegion(text, Head(begins)) = <<>>
         THEN [err |-> "UnmatchedRegion", arg |-> Head(begins).name, regions |-> acc]
         ELSE BlockLoop(text, Tail(begins), acc \o BlockRegion(text, Head(begins)))

\* SingleRegionWithin with the span taken as the whole window, matched or not
SingleRegionUnclamped(text, m, window) ==
    EditRegion(m.name, "single", m.end, m.end + window, text)

\* the body of the loop over SINGLE_LINE_RE matches, for a look-ahead window of
\* the given length
SingleRegionWithin(text, m, window) ==
    LET insert_pos == m.end
        look_ahead == Slice(text, insert_pos, insert_pos + window)
    IN  EditRegion(m.name, "single", insert_pos, insert_pos + ReplSpanEnd(look_ahead), text)

SingleRegion(text, m) == SingleRegionWithin(text, m, LookAheadWindow)

RECURSIVE SingleLoop(_, _)
SingleLoop(text, ms) ==
    IF ms = <<>> THEN <<>>
    ELSE <<SingleRegion(text, Head(ms))>> \o SingleLoop(text, Tail(ms))

\* FirstDuplicate with the uniqueness check lost
NoDuplicate(regions, seen) == <<>>

\* the "Ensure unique names" loop: the name of the first region whose name was
\* seen before, <<>> if there is none
RECURSIVE FirstDuplicate(_, _)
FirstDuplicate(regions, seen) ==
    IF regions = <<>> THEN <<>>
    ELSE IF Head(regions).name \in seen THEN <<Head(regions).name>>
    ELSE FirstDuplicate(Tail(regions), seen \cup {Head(regions).name})

\* sorted(regions, key=lambda r: r.start_idx): a stable insertion sort
RECURSIVE InsertByStart(_, _)
InsertByStart(r, sorted) ==
    IF sorted = <<>> THEN <<r>>
    ELSE IF r.start_idx < Head(sorted).start_idx THEN <<r>> \o sorted
    ELSE <<Head(sorted)>> \o InsertByStart(r, Tail(sorted))

RECURSIVE SortedByStart(_)
SortedByStart(regions) ==
    IF regions = <<>> THEN <<>>
    ELSE InsertByStart(regions[Len(regions)],
                       SortedByStart(SubSeq(regions, 1, Len(regions) - 1)))

_find_regions(text) ==
    LET blocks == BlockLoop(text, BLOCK_BEGIN_RE(text), <<>>)
        regions == blocks.regions \o SingleLoop(text, SINGLE_LINE_RE(text))
        dup == FirstDuplicate(regions, {})
    IN  IF blocks.err # "none" THEN [blocks EXCEPT !.regions = <<>>]
        ELSE IF dup # <<>>
             THEN [err |-> "DuplicateRegionName", arg |-> dup[1], regions |-> <<>>]
             ELSE [err |-> "none", arg |-> "", regions |-> SortedByStart(regions)]

(* --------------------------- _build_context ---------------------------- *)

\* JSON values of the spec, tagged by type.  A number of nanoseconds (a timing
\* value, the clk_ns argument) is a decimal with one fractional digit, held as
\* its count of tenths: 6.1 ns is Num(61), a 2.0 ns period Num(20).  clock_mhz
\* and data_width are whole numbers.
Absent == [t |-> "absent"]

Num(n) == [t |-> "num", v |-> n]

NotANumber == [t |-> "str"]

\* a value float() converts to an infinity or a NaN: "inf", "nan", 1e999
NotFinite == [t |-> "inf"]

NoOverride == [t |-> "none"]

DefaultClockMhz == 100

\* the 1000.0 of 1000.0 / float(mhz)
NsPerMhzPeriod == 1000

\* float(x): a number converts, a non-numeric string raises ValueError
FloatRaises(x) == x.t = "str"

\* math.ceil(x / clk): an infinity raises OverflowError, a NaN ValueError
CeilRaises(x) == x.t = "inf"

\* the least integer not below n / d, for d > 0
CeilDiv(n, d) == -((-n) \div d)

RECURSIVE Pow2(_)
Pow2(k) == IF k = 0 THEN 1 ELSE 2 * Pow2(k - 1)

\* A float is m * 2^e with a mantissa m of MantissaBits bits (a Python float has
\* 53; the model keeps the rounding and shortens the mantissa), the exponent
\* unbounded.  Nearest(n, d, e) is the float nearest to (n / d) * 2^e for n >= 0
\* and d > 0, a tie going to the even mantissa: the rounding of float() and of
\* the float division.
RECURSIVE Nearest(_, _, _)
Nearest(n, d, e) ==
    IF n = 0 THEN [m |-> 0, e |-> 0]
    ELSE IF n \div d >= Pow2(MantissaBits) THEN Nearest(n, 2 * d, e + 1)
    ELSE IF n \div d < Pow2(MantissaBits - 1) THEN Nearest(2 * n, d, e - 1)
    ELSE IF 2 * (n % d) > d \/ (2 * (n % d) = d /\ (n \div d) % 2 = 1)
         THEN [m |-> (n \div d) + 1, e |-> e]
         ELSE [m |-> n \div d, e |-> e]

\* float(v) of a number of tenths
FloatOfTenths(t) == Nearest(t, 10, 0)

\* float(v) of a whole number
FloatOfWhole(n) == Nearest(n, 1, 0)

\* a / b on floats, b # 0: the float nearest to the quotient
FloatDiv(a, b) ==
    Nearest(a.m * Pow2(a.e - Min(a.e, b.e)), b.m * Pow2(b.e - Min(a.e, b.e)), 0)

\* int(math.ceil(x)) of a float x >= 0
Ceil(x) == IF x.e >= 0 THEN x.m * Pow2(x.e) ELSE CeilDiv(x.m, Pow2(-x.e))

\* k.replace("_ns", "_cycles") on a key held as atoms
ReplaceNs(k) == [i \in 1..Len(k) |-> IF k[i] = "_ns" THEN "_cycles" ELSE k[i]]

\* d.setdefault(k, v): the first value stored under a key stays
RECURSIVE DictSetDefault(_, _, _)
DictSetDefault(d, k, v) ==
    IF d = <<>> THEN <<[k |-> k, v |-> v]>>
    ELSE IF Head(d).k = k THEN d
    ELSE <<Head(d)>> \o DictSetDefault(Tail(d), k, v)

\* d[k] = v on a dict held as a sequence of [k, v] in insertion order
RECURSIVE DictSet(_, _, _)
DictSet(d, k, v) ==
    IF d = <<>> THEN <<[k |-> k, v |-> v]>>
    ELSE IF Head(d).k = k THEN <<[k |-> k, v |-> v]>> \o Tail(d)
    ELSE <<Head(d)>> \o DictSet(Tail(d), k, v)

DictHas(d, k) == \E i \in 1..Len(d) : d[i].k = k

DictGet(d, k, default) ==
    IF DictHas(d, k) THEN d[CHOOSE i \in 1..Len(d) : d[i].k = k].v ELSE default

\* the timing loop leaving at the first entry that raises
RECURSIVE TimingCyclesUntilMalformed(_, _, _)
TimingCyclesUntilMalformed(items, clk, acc) ==
    IF items = <<>> THEN acc
    ELSE IF FloatRaises(Head(items).v) \/ CeilRaises(Head(items).v) \/ clk.m = 0
         THEN acc
         ELSE TimingCyclesUntilMalformed(Tail(items), clk,
                  DictSet(acc, ReplaceNs(Head(items).k),
                          Ceil(FloatDiv(FloatOfTenths(Head(items).v.v), clk))))

\* the timing loop: an entry whose conversion, division or ceiling raises is
\* skipped by the except clause, the others are stored under the replaced key
RECURSIVE TimingCycles(_, _, _)
TimingCycles(items, clk, acc) ==
    IF items = <<>> THEN acc
    ELSE IF FloatRaises(Head(items).v) \/ CeilRaises(Head(items).v) \/ clk.m = 0
         THEN TimingCycles(Tail(items), clk, acc)
         ELSE TimingCycles(Tail(items), clk,
                  DictSet(acc, ReplaceNs(Head(items).k),
                          Ceil(FloatDiv(FloatOfTenths(Head(items).v.v), clk))))

\* the clock period in nanoseconds, a float, or the exception raised on the way
\* (spec.get("sim", {}) or {}).get("clock_mhz", 100): the sub-object is
\* "absent", "null" or a "dict" that may hold the field
ClockMhz(spec) ==
    IF spec.sim # "dict" \/ spec.clock_mhz.t = "absent" THEN Num(DefaultClockMhz)
    ELSE spec.clock_mhz

\* the clock period taken from the frequency whether or not clk_ns is given
ClockPeriodOfFrequency(spec, clk_ns) ==
    LET mhz == ClockMhz(spec)
    IN  IF FloatRaises(mhz) THEN [err |-> "ValueError", clk |-> FloatOfWhole(0)]
        ELSE IF mhz.v = 0 THEN [err |-> "ZeroDivisionError", clk |-> FloatOfWhole(0)]
        ELSE [err |-> "none",
              clk |-> FloatDiv(FloatOfWhole(NsPerMhzPeriod), FloatOfWhole(mhz.v))]

ClockPeriod(spec, clk_ns) ==
    IF clk_ns.t # "none" THEN [err |-> "none", clk |-> FloatOfTenths(clk_ns.v)]
    ELSE LET mhz == ClockMhz(spec)
         IN  IF FloatRaises(mhz) THEN [err |-> "ValueError", clk |-> FloatOfWhole(0)]
             ELSE IF mhz.v = 0 THEN [err |-> "ZeroDivisionError", clk |-> FloatOfWhole(0)]
             ELSE [err |-> "none",
                   clk |-> FloatDiv(FloatOfWhole(NsPerMhzPeriod), FloatOfWhole(mhz.v))]

ByteEnableWidth(data_width) ==
    LET dw == IF data_width.t = "absent" \/ (data_width.t = "num" /\ data_width.v = 0)
              THEN 8 ELSE data_width.v
    IN  Max(1, dw \div 8)

_build_context(spec, clk_ns) ==
    LET period == ClockPeriod(spec, clk_ns)
        items == IF spec.timing.t = "dict" THEN spec.timing.items ELSE <<>>
        none == [err |-> "none", clk_ns |-> FloatOfWhole(0), timing_cycles |-> <<>>,
                 byte_enable_width |-> 0]
    IN  IF period.err # "none" THEN [none EXCEPT !.err = period.err]
        ELSE IF spec.timing.t = "list" THEN [none EXCEPT !.err = "AttributeError"]
        ELSE IF spec.data_width.t = "str" THEN [none EXCEPT !.err = "TypeError"]
        ELSE [err |-> "none", clk_ns |-> period.clk,
              timing_cycles |-> TimingCycles(items, period.clk, <<>>),
              byte_enable_width |-> ByteEnableWidth(spec.data_width)]

(* --------------------------- _parse_llm_json --------------------------- *)

\* A provider response is a text: a JSON document or something else (shape:
\* "not_json", "not_object", "no_edits", "edits_not_list", "edits"), bare or
\* inside a code fence (fence: "none", "bare" for a fence without a language,
\* "json", "other" for a fence with another language).  An entry of edits is an
\* object with an optional name and an optional code, or some other JSON value;
\* a name or code is a JSON string ("str", its atoms), a JSON number ("num",
\* the atoms of its literal) or null ("null").
TypedEntry(name_type, name, code_type, code) ==
    [object |-> TRUE, has_name |-> TRUE, name_type |-> name_type, name |-> name,
     has_code |-> TRUE, code_type |-> code_type, code |-> code]

Entry(name, code) == TypedEntry("str", name, "str", code)

EntryWithoutCode(name) == [Entry(name, <<>>) EXCEPT !.has_code = FALSE]

EntryWithoutName(code) == [Entry(<<>>, code) EXCEPT !.has_name = FALSE]

\* an entry of edits that is a JSON string, not an object
NotAnObject == [Entry(<<>>, <<>>) EXCEPT !.object = FALSE]

Response(fence, shape, edits) == [fence |-> fence, shape |-> shape, edits |-> edits]

\* str(value) of a parsed JSON value: a string is itself, a number its literal,
\* null is None
Str(type, value) == IF type = "null" THEN <<"None">> ELSE value

\* the shape of txt after the fence regex: a fence with no language or with json
\* is stripped; a fence with another language leaves the language before the
\* document, which json.loads rejects
FenceStripped(raw) == IF raw.fence = "other" THEN "not_json" ELSE raw.shape

\* the loop over obj["edits"]
RECURSIVE EditsLoop(_, _)
EditsLoop(edits, patches) ==
    IF edits = <<>> THEN [err |-> "none", arg |-> "", patches |-> patches]
    ELSE LET item == Head(edits)
             name == Strip(Str(item.name_type, item.name))
             code == Str(item.code_type, item.code)
         IN  IF ~item.object \/ ~item.has_name \/ ~item.has_code \/ name = <<>>
             THEN [err |-> "InvalidProviderOutput", arg |-> "", patches |-> <<>>]
             ELSE EditsLoop(Tail(edits), DictSet(patches, name, code))

_parse_llm_json(raw) ==
    IF FenceStripped(raw) # "edits"
    THEN [err |-> "InvalidProviderOutput", arg |-> "", patches |-> <<>>]
    ELSE EditsLoop(raw.edits, <<>>)

(* -------------------------- _validate_patches -------------------------- *)

\* <bq> stands for the backquote of `include
forbidden == <<"$fopen", "$fread", "$system", "import \"DPI-C\"", "<bq>include">>

RegionNames(regions) == {<<regions[i].name>> : i \in 1..Len(regions)}

\* UnknownNames with the membership check lost
UnknownNamesUnchecked(regions, patches) == <<>>

\* for name in patches.keys(): if name not in region_names: raise
UnknownNames(regions, patches) ==
    SelectSeq(patches, LAMBDA e : e.k \notin RegionNames(regions))

\* ForbiddenHits with the token check lost
ForbiddenHitsUnchecked(patches) == <<>>

\* for name, code in patches.items(): for token in forbidden: if token in code
ForbiddenHits(patches) ==
    SelectSeq(patches, LAMBDA e : \E t \in 1..Len(forbidden) : Contains(e.v, forbidden[t]))

FirstForbidden(code) ==
    forbidden[CHOOSE t \in 1..Len(forbidden) :
                /\ Contains(code, forbidden[t])
                /\ \A u \in 1..(t - 1) : ~Contains(code, forbidden[u])]

\* _validate_patches with both checks lost
_validate_patches_skipped(regions, patches) == [err |-> "none", arg |-> ""]

\* the region names that have no patch
Missing(regions, patches) ==
    SelectSeq(regions, LAMBDA r : ~DictHas(patches, <<r.name>>))

\* _validate_patches in the strict mode the code leaves commented out: a region
\* without an edit is fatal
_validate_patches_strict(regions, patches) ==
    IF Missing(regions, patches) # <<>>
    THEN [err |-> "MissingEdits", arg |-> Head(Missing(regions, patches)).name]
    ELSE [err |-> "none", arg |-> ""]

_validate_patches(regions, patches) ==
    IF UnknownNames(regions, patches) # <<>>
    THEN [err |-> "UnknownRegionReference", arg |-> Head(UnknownNames(regions, patches)).k]
    ELSE IF ForbiddenHits(patches) # <<>>
    THEN [err |-> "ForbiddenToken",
          arg |-> <<Head(ForbiddenHits(patches)).k, FirstForbidden(Head(ForbiddenHits(patches)).v)>>]
    ELSE [err |-> "none", arg |-> ""]

(* ---------------------------- _apply_patches --------------------------- *)

\* ^(three backquotes)(?:sv|systemverilog)?\s*(.*)(three backquotes)$ under
\* re.DOTALL, on stripped code: group(1), or <<>> wrapped as "no match"
FenceMatch(c) ==
    IF Len(c) >= 2 /\ c[1] = Fence /\ c[Len(c)] = Fence
    THEN LET inner == SubSeq(c, 2, Len(c) - 1)
         IN  <<IF inner # <<>> /\ Head(inner) \in {"sv", "systemverilog"}
               THEN LStrip(Tail(inner)) ELSE LStrip(inner)>>
    ELSE <<>>

_normalize_code(code) ==
    LET c == Strip(code)
    IN  IF FenceMatch(c) # <<>> THEN Strip(FenceMatch(c)[1]) ELSE c

\* patches.get(r.name, "")
PatchFor(patches, r) == DictGet(patches, <<r.name>>, <<>>)

\* ApplyOne putting the replacement before the span and keeping the span
ApplyOneKeepingSpan(out, r, patches) ==
    Slice(out, 0, r.start_idx) \o <<NL>> \o RStrip(_normalize_code(PatchFor(patches, r)))
        \o <<NL>> \o SliceFrom(out, r.start_idx)

\* out[:r.start_idx] + "\n" + replacement.rstrip() + "\n" + out[r.end_idx:]
ApplyOne(out, r, patches) ==
    Slice(out, 0, r.start_idx) \o <<NL>> \o RStrip(_normalize_code(PatchFor(patches, r)))
        \o <<NL>> \o SliceFrom(out, r.end_idx)

\* the loop over regions_sorted, given here in ascending order and walked from
\* its end: descending start_idx
RECURSIVE ApplyLoop(_, _, _)
ApplyLoop(out, regions, patches) ==
    IF regions = <<>> THEN out
    ELSE ApplyLoop(ApplyOne(out, regions[Len(regions)], patches),
                   SubSeq(regions, 1, Len(regions) - 1), patches)

_apply_patches(text, regions, patches) ==
    ApplyLoop(text, SortedByStart(regions), patches)

(* ------------------------------- inputs -------------------------------- *)

SingleLine(n) == <<LineCommentOpen, SingleKeyword, n>>

BeginLine(n) == <<LineCommentOpen, BeginKeyword, n>>

EndLine(n) == <<LineCommentOpen, EndKeyword, n>>

PlaceholderLine == <<LineCommentOpen, Placeholder>>

BlockCommentLine == <<BlockCommentOpen, Placeholder, BlockCommentClose>>

BlankLine == <<>>

CodeLine == <<"x">>

IndentedCodeLine == <<SP, SP, "x">>

TemplateLines ==
    {SingleLine(n) : n \in TemplateNames} \cup {BeginLine(n) : n \in TemplateNames}
        \cup {EndLine(n) : n \in TemplateNames}
        \cup {PlaceholderLine, BlankLine, CodeLine, IndentedCodeLine}

RECURSIVE JoinLines(_)
JoinLines(ls) ==
    IF ls = <<>> THEN <<>>
    ELSE IF Len(ls) = 1 THEN ls[1]
    ELSE ls[1] \o <<NL>> \o JoinLines(Tail(ls))

SeqsUpTo(S, n) == UNION {[1..k -> S] : k \in 0..n}

Templates == {JoinLines(ls) : ls \in SeqsUpTo(TemplateLines, MaxLines)}

GoodSpec ==
    [sim |-> "dict", clock_mhz |-> Absent, data_width |-> Num(32),
     timing |-> [t |-> "dict",
                 items |-> <<[k |-> <<"t_aa", "_ns">>, v |-> Num(61)],
                             [k |-> <<"t_wc", "_ns">>, v |-> NotANumber]>>]]

SpecValues ==
    {GoodSpec,
     [GoodSpec EXCEPT !.clock_mhz = Num(0)],
     [GoodSpec EXCEPT !.clock_mhz = NotANumber],
     [GoodSpec EXCEPT !.data_width = NotANumber],
     [GoodSpec EXCEPT !.timing = [t |-> "list"]]}

ClockOverrides == {NoOverride}

ResponseNames == {<<"A">>, <<"B">>, <<"Z">>}

ResponseEntries ==
    {Entry(n, <<"y">>) : n \in ResponseNames}
        \cup {Entry(<<"A">>, <<"$fopen">>), EntryWithoutCode(<<"A">>)}

Responses ==
    {Response("none", "not_json", <<>>)}
        \cup {Response("none", "edits", es) : es \in SeqsUpTo(ResponseEntries, MaxEdits)}

\* responses of every shape the parser tells apart, for the templates below
ParseEntries ==
    {Entry(<<"A">>, <<"y">>), Entry(<<SP, "B", SP>>, <<"y">>), Entry(<<SP>>, <<"y">>),
     TypedEntry("str", <<"A">>, "num", <<"5">>), TypedEntry("str", <<"A">>, "null", <<>>),
     TypedEntry("null", <<>>, "str", <<"y">>),
     EntryWithoutCode(<<"A">>), EntryWithoutName(<<"y">>), NotAnObject}

ParseResponses ==
    {Response(f, sh, <<>>) :
        f \in {"none", "bare", "json", "other"},
        sh \in {"not_json", "not_object", "no_edits", "edits_not_list"}}
        \cup {Response(f, "edits", es) :
                f \in {"none", "bare", "json", "other"},
                es \in SeqsUpTo(ParseEntries, MaxEdits)}

ParseTemplates ==
    {JoinLines(<<SingleLine("A"), CodeLine>>),
     JoinLines(<<SingleLine("A"), CodeLine, SingleLine("B")>>),
     JoinLines(<<BeginLine("A"), CodeLine, EndLine("A"), SingleLine("B")>>)}

\* EchoAdapter.complete: json.dumps({"edits": []}, indent=2), whatever the prompts
EchoAdapter_complete(system, user) == Response("none", "edits", <<>>)

(* -------------------------- apply_llm_edits ---------------------------- *)

VARIABLES
    template_text,  \* the template argument
    spec,           \* the spec argument
    clk_ns,         \* the clock period override argument
    pc,             \* the position in apply_llm_edits
    regions,        \* the local regions
    ctx,            \* <<the local ctx>> once built
    raw,            \* <<the provider's response>> once received
    patches,        \* the local patches
    calls,          \* the number of calls of provider.complete
    result,         \* the returned text
    err,            \* the kind of the exception raised, "none" if none
    errArg,         \* the name or token the exception carries
    self,           \* the engine object: its fields
    second          \* the frame of a second call on the same engine, if any

vars == <<template_text, spec, clk_ns, pc, regions, ctx, raw, patches, calls, result,
          err, errArg, self, second>>

\* __init__: the engine keeps the provider and nothing else
GuardedEditEngine(provider) == [provider |-> provider]

\* the frame of a call of apply_llm_edits at its start: the arguments and the
\* locals, not yet bound
NewCall(template, s, clk) ==
    [template_text |-> template, spec |-> s, clk_ns |-> clk, pc |-> "find_regions",
     regions |-> <<>>, ctx |-> <<>>, raw |-> <<>>, patches |-> <<>>, calls |-> 0,
     result |-> <<>>, err |-> "none", errArg |-> ""]

\* no second call
NoCall == [pc |-> "none"]

Init ==
    /\ template_text \in Templates
    /\ spec \in SpecValues
    /\ clk_ns \in ClockOverrides
    /\ pc = "find_regions"
    /\ regions = <<>>
    /\ ctx = <<>>
    /\ raw = <<>>
    /\ patches = <<>>
    /\ calls = 0
    /\ result = <<>>
    /\ err = "none"
    /\ errArg = ""
    /\ self = GuardedEditEngine("remote")
    /\ second = NoCall

\* Raise with a retry: a failure after the provider call asks the provider again
RaiseOrRetry(kind, arg) ==
    /\ pc' = IF kind \in {"InvalidProviderOutput", "UnknownRegionReference", "ForbiddenToken"}
             THEN "complete" ELSE "raised"
    /\ err' = kind
    /\ errArg' = arg

Raise(kind, arg) ==
    /\ pc' = "raised"
    /\ err' = kind
    /\ errArg' = arg

Return(text) ==
    /\ pc' = "returned"
    /\ result' = text

\* NothingToDo with the early return lost
NeverNothingToDo(rs) == FALSE

\* if not regions: return template_text
NothingToDo(rs) == rs = <<>>

\* regions = self._find_regions(template_text); if not regions: return
FindRegions ==
    /\ UNCHANGED <<self, second>>
    /\ pc = "find_regions"
    /\ LET found == _find_regions(template_text)
       IN  IF found.err # "none"
           THEN Raise(found.err, found.arg) /\ UNCHANGED <<regions, result>>
           ELSE IF NothingToDo(found.regions)
           THEN Return(template_text) /\ UNCHANGED <<regions, err, errArg>>
           ELSE /\ pc' = "build_context"
                /\ regions' = found.regions
                /\ UNCHANGED <<result, err, errArg>>
    /\ UNCHANGED <<template_text, spec, clk_ns, ctx, raw, patches, calls>>

\* ctx = self._build_context(spec, clk_ns=clk_ns), then the two prompts
BuildContext ==
    /\ UNCHANGED <<self, second>>
    /\ pc = "build_context"
    /\ LET built == _build_context(spec, clk_ns)
       IN  IF built.err # "none"
           THEN Raise(built.err, "") /\ UNCHANGED ctx
           ELSE /\ pc' = "complete"
                /\ ctx' = <<built>>
                /\ UNCHANGED <<err, errArg>>
    /\ UNCHANGED <<template_text, spec, clk_ns, regions, raw, patches, calls, result>>

\* raw = self.provider.complete(system_prompt, user_prompt).strip(), the provider
\* answering with one of the given responses
ProviderCompleteWith(responses) ==
    /\ UNCHANGED <<self, second>>
    /\ pc = "complete"
    /\ \E response \in responses : raw' = <<response>>
    /\ calls' = calls + 1
    /\ pc' = "parse"
    /\ UNCHANGED <<template_text, spec, clk_ns, regions, ctx, patches, result, err, errArg>>

ProviderComplete == ProviderCompleteWith(Responses)

ProviderCompleteAnyShape == ProviderCompleteWith(ParseResponses)

\* patches = self._parse_llm_json(raw)
ParseLlmJson ==
    /\ UNCHANGED <<self, second>>
    /\ pc = "parse"
    /\ LET parsed == _parse_llm_json(raw[1])
       IN  IF parsed.err # "none"
           THEN Raise(parsed.err, parsed.arg) /\ UNCHANGED patches
           ELSE /\ pc' = "validate"
                /\ patches' = parsed.patches
                /\ UNCHANGED <<err, errArg>>
    /\ UNCHANGED <<template_text, spec, clk_ns, regions, ctx, raw, calls, result>>

\* self._validate_patches(regions, patches)
ValidatePatches ==
    /\ UNCHANGED <<self, second>>
    /\ pc = "validate"
    /\ LET checked == _validate_patches(regions, patches)
       IN  IF checked.err # "none"
           THEN Raise(checked.err, checked.arg)
           ELSE pc' = "apply" /\ UNCHANGED <<err, errArg>>
    /\ UNCHANGED <<template_text, spec, clk_ns, regions, ctx, raw, patches, calls, result>>

\* return self._apply_patches(template_text, regions, patches)
ApplyPatches ==
    /\ UNCHANGED <<self, second>>
    /\ pc = "apply"
    /\ Return(_apply_patches(template_text, regions, patches))
    /\ UNCHANGED <<template_text, spec, clk_ns, regions, ctx, raw, patches, calls,
                   err, errArg>>

Next ==
    \/ FindRegions
    \/ BuildContext
    \/ ProviderComplete
    \/ ParseLlmJson
    \/ ValidatePatches
    \/ ApplyPatches

Spec == Init /\ [][Next]_vars

\* the scan alone, on templates that may also hold block comment lines and an
\* END line of a name no BEGIN line bears
ScanTemplates ==
    {JoinLines(ls) :
        ls \in SeqsUpTo(TemplateLines \cup {BlockCommentLine, EndLine("Z")}, MaxLines)}

ScanInit ==
    /\ template_text \in ScanTemplates
    /\ spec = GoodSpec
    /\ clk_ns = NoOverride
    /\ pc = "find_regions"
    /\ regions = <<>>
    /\ ctx = <<>>
    /\ raw = <<>>
    /\ patches = <<>>
    /\ calls = 0
    /\ result = <<>>
    /\ err = "none"
    /\ errArg = ""
    /\ self = GuardedEditEngine("remote")
    /\ second = NoCall

ScanNext == FindRegions

\* the scan and the context builder, on one timing entry and a clock period given
\* by the caller or derived from a clock frequency
TimingKey == <<"t_aa", "_ns">>

TimingSpec(v) ==
    [GoodSpec EXCEPT !.timing = [t |-> "dict", items |-> <<[k |-> TimingKey, v |-> Num(v)]>>]]

CeilInit ==
    /\ template_text = JoinLines(<<SingleLine("A"), CodeLine>>)
    /\ \E v \in 0..MaxTimingTenths : spec = TimingSpec(v)
    /\ clk_ns \in {NoOverride} \cup {Num(p) : p \in 1..MaxPeriodTenths}
    /\ pc = "find_regions"
    /\ regions = <<>>
    /\ ctx = <<>>
    /\ raw = <<>>
    /\ patches = <<>>
    /\ calls = 0
    /\ result = <<>>
    /\ err = "none"
    /\ errArg = ""
    /\ self = GuardedEditEngine("remote")
    /\ second = NoCall

CeilNext ==
    \/ FindRegions
    \/ BuildContext

CeilSpec == CeilInit /\ [][CeilNext]_vars

\* the scan and the context builder, on timing dicts of several entries (well
\* formed, non-numeric, non-finite; keys with one "_ns", with two, and one that
\* is already the replaced form of another), a simulation sub-object that is
\* absent, null or a dict, and a clock period given by the caller or not
TimingKeys ==
    {<<"t_aa", "_ns">>, <<"t_wc", "_ns">>, <<"t", "_ns", "_min", "_ns">>,
     <<"t_aa", "_cycles">>}

TimingValues == {Num(61), Num(125), NotANumber, NotFinite}

TimingDicts ==
    {items \in SeqsUpTo([k : TimingKeys, v : TimingValues], MaxTimingEntries) :
        \A i, j \in 1..Len(items) : items[i].k = items[j].k => i = j}

ClockFrequencies == {Absent, Num(0), Num(3), Num(24), Num(250), NotANumber}

ContextSpecs ==
    {[sim |-> sim, clock_mhz |-> mhz, data_width |-> Num(32),
      timing |-> [t |-> "dict", items |-> items]] :
        sim \in {"absent", "null", "dict"}, mhz \in ClockFrequencies,
        items \in TimingDicts}

ContextInit ==
    /\ template_text = JoinLines(<<SingleLine("A"), CodeLine>>)
    /\ spec \in {s \in ContextSpecs : s.sim # "dict" => s.clock_mhz = Absent}
    /\ clk_ns \in {NoOverride, Num(0), Num(1), Num(20)}
    /\ pc = "find_regions"
    /\ regions = <<>>
    /\ ctx = <<>>
    /\ raw = <<>>
    /\ patches = <<>>
    /\ calls = 0
    /\ result = <<>>
    /\ err = "none"
    /\ errArg = ""
    /\ self = GuardedEditEngine("remote")
    /\ second = NoCall

ContextNext ==
    \/ FindRegions
    \/ BuildContext

ContextSpec == ContextInit /\ [][ContextNext]_vars

\* Two calls on one engine, their stages interleaved in any order.  The first
\* call runs in the variables of the single call, the second in the frame second.
PairTemplates ==
    {JoinLines(<<CodeLine>>),
     JoinLines(<<SingleLine("A"), CodeLine>>),
     JoinLines(<<BeginLine("A"), CodeLine, EndLine("A"), SingleLine("B")>>),
     JoinLines(<<BeginLine("B"), CodeLine>>)}

PairSpecs == {GoodSpec, [GoodSpec EXCEPT !.clock_mhz = Num(0)]}

\* what self.provider.complete can return, by the adapter the engine was built with
ProviderAnswers(provider) ==
    IF provider = "echo" THEN {EchoAdapter_complete(<<>>, <<>>)}
    ELSE {EchoAdapter_complete(<<>>, <<>>),
          Response("none", "edits", <<Entry(<<"A">>, <<"y">>)>>),
          Response("json", "edits", <<Entry(<<"B">>, <<"$fopen">>)>>),
          Response("none", "not_json", <<>>)}

\* OwnLocals with the regions kept in a field of the engine, which the other
\* call overwrites once it has scanned
RegionsInEngineField(mine, other) ==
    IF other.regions # <<>> THEN [mine EXCEPT !.regions = other.regions] ELSE mine

\* the frame the stages of a call work on, of the frame mine of this call and the
\* frame other of the other call: its own, the locals being per call
OwnLocals(mine, other) == mine

\* one stage of apply_llm_edits on the frame f of a call, the provider answering
\* with response if this is the stage that asks it
CallStep(f, response) ==
    IF f.pc = "find_regions"
    THEN LET found == _find_regions(f.template_text)
         IN  IF found.err # "none"
             THEN [f EXCEPT !.pc = "raised", !.err = found.err, !.errArg = found.arg]
             ELSE IF NothingToDo(found.regions)
             THEN [f EXCEPT !.pc = "returned", !.result = f.template_text]
             ELSE [f EXCEPT !.pc = "build_context", !.regions = found.regions]
    ELSE IF f.pc = "build_context"
    THEN LET built == _build_context(f.spec, f.clk_ns)
         IN  IF built.err # "none"
             THEN [f EXCEPT !.pc = "raised", !.err = built.err]
             ELSE [f EXCEPT !.pc = "complete", !.ctx = <<built>>]
    ELSE IF f.pc = "complete"
    THEN [f EXCEPT !.pc = "parse", !.raw = <<response>>, !.calls = f.calls + 1]
    ELSE IF f.pc = "parse"
    THEN LET parsed == _parse_llm_json(f.raw[1])
         IN  IF parsed.err # "none"
             THEN [f EXCEPT !.pc = "raised", !.err = parsed.err, !.errArg = parsed.arg]
             ELSE [f EXCEPT !.pc = "validate", !.patches = parsed.patches]
    ELSE IF f.pc = "validate"
    THEN LET checked == _validate_patches(f.regions, f.patches)
         IN  IF checked.err # "none"
             THEN [f EXCEPT !.pc = "raised", !.err = checked.err, !.errArg = checked.arg]
             ELSE [f EXCEPT !.pc = "apply"]
    ELSE IF f.pc = "apply"
    THEN [f EXCEPT !.pc = "returned",
                   !.result = _apply_patches(f.template_text, f.regions, f.patches)]
    ELSE f

\* the frame of the first call
FirstFrame ==
    [template_text |-> template_text, spec |-> spec, clk_ns |-> clk_ns, pc |-> pc,
     regions |-> regions, ctx |-> ctx, raw |-> raw, patches |-> patches,
     calls |-> calls, result |-> result, err |-> err, errArg |-> errArg]

PairInit ==
    /\ template_text \in PairTemplates
    /\ spec \in PairSpecs
    /\ clk_ns = NoOverride
    /\ pc = "find_regions"
    /\ regions = <<>>
    /\ ctx = <<>>
    /\ raw = <<>>
    /\ patches = <<>>
    /\ calls = 0
    /\ result = <<>>
    /\ err = "none"
    /\ errArg = ""
    /\ self \in {GuardedEditEngine("echo"), GuardedEditEngine("remote")}
    /\ second \in {NewCall(t, sp, NoOverride) : t \in PairTemplates, sp \in PairSpecs}

\* the provider step of the first call, asking the engine's provider
ProviderCompleteOfEngine == ProviderCompleteWith(ProviderAnswers(self.provider))

\* one stage of the second call
SecondStep ==
    /\ second.pc \notin {"returned", "raised"}
    /\ \E response \in ProviderAnswers(self.provider) :
           second' = CallStep(OwnLocals(second, FirstFrame), response)
    /\ UNCHANGED <<template_text, spec, clk_ns, pc, regions, ctx, raw, patches, calls,
                   result, err, errArg, self>>

PairNext ==
    \/ FindRegions
    \/ BuildContext
    \/ ProviderCompleteOfEngine
    \/ ParseLlmJson
    \/ ValidatePatches
    \/ ApplyPatches
    \/ SecondStep

PairSpec == PairInit /\ [][PairNext]_vars

\* the whole call on a few templates, the provider answering with any shape
ParseInit ==
    /\ template_text \in ParseTemplates
    /\ spec = GoodSpec
    /\ clk_ns = NoOverride
    /\ pc = "find_regions"
    /\ regions = <<>>
    /\ ctx = <<>>
    /\ raw = <<>>
    /\ patches = <<>>
    /\ calls = 0
    /\ result = <<>>
    /\ err = "none"
    /\ errArg = ""
    /\ self = GuardedEditEngine("remote")
    /\ second = NoCall

ParseNext ==
    \/ FindRegions
    \/ BuildContext
    \/ ProviderCompleteAnyShape
    \/ ParseLlmJson
    \/ ValidatePatches
    \/ ApplyPatches

ParseSpec == ParseInit /\ [][ParseNext]_vars

ScanSpec == ScanInit /\ [][ScanNext]_vars

\* The whole call on templates of block regions and of a single-line region, the
\* provider answering with edits whose names repeat (as given or once trimmed)
\* and whose codes are bare, fenced, denylisted inside a fence, or a marker
\* line; then a second call on the text the first returned, the provider
\* answering as it did the first time.
MergeTemplates ==
    {JoinLines(<<BeginLine("A"), CodeLine, EndLine("A")>>),
     JoinLines(<<BeginLine("A"), CodeLine, EndLine("A"), BeginLine("B"), EndLine("B")>>),
     JoinLines(<<CodeLine, BeginLine("B"), IndentedCodeLine, CodeLine, EndLine("B"), CodeLine>>),
     JoinLines(<<SingleLine("A"), CodeLine>>)}

MergeNames == {<<"A">>, <<SP, "A", SP>>, <<"B">>, <<"Z">>}

MergeCodes ==
    {<<"y">>, <<Fence, "sv", NL, "y", SP, Fence>>, <<Fence, "$fopen", Fence>>,
     <<Fence, "sv", SP>> \o EndLine("A") \o <<Fence>>}

MergeResponses ==
    {Response("none", "edits", es) :
        es \in SeqsUpTo({Entry(n, c) : n \in MergeNames, c \in MergeCodes}, MaxEdits)}

MergeInit ==
    /\ template_text \in MergeTemplates
    /\ spec = GoodSpec
    /\ clk_ns = NoOverride
    /\ pc = "find_regions"
    /\ regions = <<>>
    /\ ctx = <<>>
    /\ raw = <<>>
    /\ patches = <<>>
    /\ calls = 0
    /\ result = <<>>
    /\ err = "none"
    /\ errArg = ""
    /\ self = GuardedEditEngine("remote")
    /\ second = NoCall

ProviderCompleteMerge == ProviderCompleteWith(MergeResponses)

\* the caller passes the returned text to apply_llm_edits again
CallAgain ==
    /\ pc = "returned"
    /\ second = NoCall
    /\ second' = NewCall(result, spec, clk_ns)
    /\ UNCHANGED <<template_text, spec, clk_ns, pc, regions, ctx, raw, patches, calls,
                   result, err, errArg, self>>

\* one stage of the second call, the provider answering as in the first call
SecondStepSameResponse ==
    /\ second.pc \notin {"none", "returned", "raised"}
    /\ second' = CallStep(second, raw[1])
    /\ UNCHANGED <<template_text, spec, clk_ns, pc, regions, ctx, raw, patches, calls,
                   result, err, errArg, self>>

MergeNext ==
    \/ FindRegions
    \/ BuildContext
    \/ ProviderCompleteMerge
    \/ ParseLlmJson
    \/ ValidatePatches
    \/ ApplyPatches
    \/ CallAgain
    \/ SecondStepSameResponse

MergeSpec == MergeInit /\ [][MergeNext]_vars

TypeOK ==
    /\ pc \in {"find_regions", "build_context", "complete", "parse", "validate",
               "apply", "returned", "raised"}
    /\ calls \in 0..1

(* ------------------------- vocabulary of the claims -------------------- *)

Returned == pc = "returned"

Raised == pc = "raised"

Finished == Returned \/ Raised

EngineErrors ==
    {"UnmatchedRegion", "DuplicateRegionName", "InvalidProviderOutput",
     "UnknownRegionReference", "ForbiddenToken"}

MatchNames(ms) == [i \in 1..Len(ms) |-> ms[i].name]

\* the single-line marker lines and the BEGIN lines of a text, in text order each
RegionMarkers(text) == SINGLE_LINE_RE(text) \o BLOCK_BEGIN_RE(text)

EndMarkers(text) == FindIter(text, EndKeyword, 0)

\* the names on the marker lines of a text, by kind of marker
MarkerLines(text) ==
    <<MatchNames(SINGLE_LINE_RE(text)), MatchNames(BLOCK_BEGIN_RE(text)),
      MatchNames(EndMarkers(text))>>

NoMarkers(text) == RegionMarkers(text) = <<>>

\* two single-line markers, two BEGIN lines, or one of each, bear one name
SharedName(text) ==
    LET ms == RegionMarkers(text)
    IN  \E i, j \in 1..Len(ms) : i # j /\ ms[i].name = ms[j].name

\* the BEGIN line b has an END line of its name somewhere after it
HasEndAfter(text, b) ==
    LET ends == EndMarkers(text)
    IN  \E i \in 1..Len(ends) : ends[i].start > b.end /\ ends[i].name = b.name

\* the END line that follows the BEGIN line b first bears b's name
Paired(text, b) ==
    LET ends == EndMarkers(text)
    IN  \E i \in 1..Len(ends) :
            /\ ends[i].start > b.end
            /\ ends[i].name = b.name
            /\ \A j \in 1..(i - 1) : ends[j].start < b.end

Unpaired(text) == SelectSeq(BLOCK_BEGIN_RE(text), LAMBDA b : ~Paired(text, b))

Overlapping(rs) ==
    \E i, j \in 1..Len(rs) :
        i # j /\ rs[i].start_idx < rs[j].end_idx /\ rs[j].start_idx < rs[i].end_idx

\* a response every entry of which the parser accepts
WellFormed(response) ==
    /\ response.shape = "edits"
    /\ \A i \in 1..Len(response.edits) :
           LET e == response.edits[i]
           IN  e.object /\ e.has_name /\ e.has_code /\ Strip(e.name) # <<>>

\* the names the entries of a response give, trimmed
NamedBy(response) ==
    {Strip(response.edits[i].name) :
        i \in {k \in 1..Len(response.edits) :
                 response.edits[k].object /\ response.edits[k].has_name}}

Denylisted(code) == \E t \in 1..Len(forbidden) : Contains(code, forbidden[t])

HasDenylistedEntry(response) ==
    \E i \in 1..Len(response.edits) :
        /\ response.edits[i].object
        /\ response.edits[i].has_code
        /\ Denylisted(response.edits[i].code)

\* a text is the fixed pieces of a pattern in order, with any text at the holes
RECURSIVE Fits(_, _)
Fits(text, pattern) ==
    IF pattern = <<>> THEN text = <<>>
    ELSE IF Head(pattern).hole
         THEN \E k \in 0..Len(text) : Fits(SliceFrom(text, k), Tail(pattern))
         ELSE /\ Len(Head(pattern).fixed) <= Len(text)
              /\ SubSeq(text, 1, Len(Head(pattern).fixed)) = Head(pattern).fixed
              /\ Fits(SliceFrom(text, Len(Head(pattern).fixed)), Tail(pattern))

Fixed(s) == [hole |-> FALSE, fixed |-> s]

Hole == [hole |-> TRUE, fixed |-> <<>>]

Unpatched(r) == ~DictHas(patches, <<r.name>>)

\* the template around the spans of rs (in start order, from offset from on): a
\* hole at each span, or the span's own text where the region has no patch and
\* keepUnpatched says so
RECURSIVE Frame(_, _, _, _)
Frame(text, rs, from, keepUnpatched) ==
    IF rs = <<>> THEN <<Fixed(SliceFrom(text, from))>>
    ELSE <<Fixed(Slice(text, from, Head(rs).start_idx)),
           IF keepUnpatched /\ Unpatched(Head(rs))
           THEN Fixed(Head(rs).original_text) ELSE Hole>>
         \o Frame(text, Tail(rs), Head(rs).end_idx, keepUnpatched)

(* ------------------------------- claims -------------------------------- *)

\* C1: in the returned text every region that has no patch still holds its
\* original_text in its span (stated for templates whose regions do not overlap,
\* the text around the spans fixed and any text allowed at the patched spans).
C1_UnpatchedRegionKept ==
    (Returned /\ regions # <<>> /\ ~Overlapping(regions))
        => Fits(result, Frame(template_text, regions, 0, TRUE))

\* C2: the returned text is the template everywhere outside the region spans (the
\* text before the first span, between consecutive spans and after the last one),
\* and every single-line marker line, BEGIN line and END line is still there.
C2_OutsideSpansPreserved ==
    Returned =>
        /\ Fits(result, Frame(template_text, regions, 0, FALSE))
        /\ MarkerLines(result) = MarkerLines(template_text)

\* C3: the regions a successful scan returns are in non-decreasing start order
\* and each ends no later than the next one starts.
C3_SortedNonOverlapping ==
    \A i \in 1..(Len(regions) - 1) :
        /\ regions[i].start_idx <= regions[i + 1].start_idx
        /\ regions[i].end_idx <= regions[i + 1].start_idx

\* the text s without the placeholder comment lines it starts with
RECURSIVE AfterPlaceholderLines(_)
AfterPlaceholderLines(s) ==
    IF Len(s) >= 3 /\ SubSeq(s, 1, 3) = PlaceholderLine \o <<NL>>
    THEN AfterPlaceholderLines(SliceFrom(s, 3)) ELSE s

\* the marker line of region n and a first placeholder line
ScenarioHead(n) == SingleLine(n) \o <<NL>> \o PlaceholderLine \o <<NL>>

\* what follows the placeholder lines
ScenarioRest(text, n) == AfterPlaceholderLines(SliceFrom(text, Len(ScenarioHead(n))))

\* the marker of region n, one or more placeholder lines, then a code line
PlaceholderScenario(text, n) ==
    /\ Len(text) > Len(ScenarioHead(n))
    /\ SubSeq(text, 1, Len(ScenarioHead(n))) = ScenarioHead(n)
    /\ ScenarioRest(text, n) # <<>>
    /\ Head(ScenarioRest(text, n)) = "x"

\* C4: for a single-line marker followed by placeholder lines and then a line
\* that is neither blank nor a comment, a patch for the region gives the marker
\* line, a newline, the code, a newline, then that line and the rest unchanged.
C4_PlaceholderLinesReplaced ==
    \A n \in TemplateNames :
        (/\ Returned
         /\ PlaceholderScenario(template_text, n)
         /\ Len(regions) = 1
         /\ DictHas(patches, <<n>>))
            => result = SingleLine(n) \o <<NL>> \o DictGet(patches, <<n>>, <<>>) \o <<NL>>
                          \o ScenarioRest(template_text, n)

\* C5: a response with a denylisted token in the code of any entry makes the call
\* fail with the forbidden-token error (stated for the responses that parse and
\* name known regions only, where no other error kind can come first).
C5_DenylistedEntryRejected ==
    (/\ Finished
     /\ raw # <<>>
     /\ WellFormed(raw[1])
     /\ NamedBy(raw[1]) \subseteq RegionNames(regions)
     /\ HasDenylistedEntry(raw[1]))
        => Raised /\ err = "ForbiddenToken"

\* C6 as stated: every response with an entry naming an unknown region makes the
\* call fail with the unknown-region error, without a merge.
C6_UnknownAlwaysReported ==
    (/\ Finished
     /\ raw # <<>>
     /\ raw[1].shape = "edits"
     /\ ~(NamedBy(raw[1]) \subseteq RegionNames(regions)))
        => Raised /\ err = "UnknownRegionReference" /\ result = <<>>

\* C6 as amended: every response that the parser accepts (each entry an object
\* with a non-empty name and a code) and that has an entry naming an unknown
\* region makes the call fail with the unknown-region error carrying one of the
\* unknown names; the merge step is never reached and no text is returned.
C6_UnknownRejectedWhenParsed ==
    (/\ raw # <<>>
     /\ WellFormed(raw[1])
     /\ ~(NamedBy(raw[1]) \subseteq RegionNames(regions)))
        => /\ pc \in {"parse", "validate", "raised"}
           /\ result = <<>>
           /\ Raised => /\ err = "UnknownRegionReference"
                        /\ errArg \in NamedBy(raw[1]) \ RegionNames(regions)

\* the call failed on an unknown name in a response that also names a known region
C6_Witness ==
    /\ Raised
    /\ err = "UnknownRegionReference"
    /\ Len(raw[1].edits) = 2
    /\ NamedBy(raw[1]) \cap RegionNames(regions) # {}

\* C7 as stated: a template in which two region markers share a name makes the
\* call fail with the duplicate-name error, the provider never being called.
C7_DuplicateAlwaysReported ==
    (Finished /\ SharedName(template_text))
        => Raised /\ err = "DuplicateRegionName" /\ calls = 0

\* C7 as amended: a template in which two region markers share a name makes the
\* call fail in its scan, before the provider is called; the failure is the
\* duplicate-name error for a shared name when every BEGIN line is paired with its
\* END, and the unmatched-region error when some BEGIN line is not.  (The scan
\* step of such a template ends in the failure, and no step follows a failure.)
C7_DuplicateRejectedBeforeCall ==
    [][/\ ~Finished
       /\ (pc = "find_regions" /\ SharedName(template_text)) =>
             /\ Raised'
             /\ calls' = 0
             /\ raw' = <<>>
             /\ result' = <<>>
             /\ IF Unpaired(template_text) = <<>>
                THEN /\ err' = "DuplicateRegionName"
                     /\ LET ms == RegionMarkers(template_text)
                        IN  \E i, j \in 1..Len(ms) :
                                i # j /\ ms[i].name = errArg' /\ ms[j].name = errArg'
                ELSE err' = "UnmatchedRegion"]_vars

\* the call failed on a name shared by a single-line marker and a block
C7_Witness ==
    /\ Raised
    /\ err = "DuplicateRegionName"
    /\ calls = 0
    /\ LET singles == SINGLE_LINE_RE(template_text)
           begins == BLOCK_BEGIN_RE(template_text)
       IN  \E i \in 1..Len(singles) : \E j \in 1..Len(begins) :
               singles[i].name = begins[j].name

\* the BEGIN lines of a text that no END line of their name follows
WithoutEnd(text) == SelectSeq(BLOCK_BEGIN_RE(text), LAMBDA b : ~HasEndAfter(text, b))

\* C8 as stated: for every BEGIN X line that no END X line follows, the scan fails
\* with the unmatched-region error naming X, the provider never being called.
C8_UnmatchedNamesEveryBegin ==
    Finished =>
        LET lone == WithoutEnd(template_text)
        IN  \A i \in 1..Len(lone) :
                /\ Raised
                /\ err = "UnmatchedRegion"
                /\ errArg = lone[i].name
                /\ calls = 0

\* C8 as amended: a template with a BEGIN X line that no END X line follows makes
\* the scan fail with the unmatched-region error before the provider is called;
\* the error names the first BEGIN line of the text whose next END line is
\* missing or bears another name, which is X when no earlier BEGIN is such.
\* (The scan step of such a template ends in the failure, and no step follows a
\* failure.)
C8_UnmatchedRejectedBeforeCall ==
    [][/\ ~Finished
       /\ (pc = "find_regions" /\ WithoutEnd(template_text) # <<>>) =>
             /\ Raised'
             /\ calls' = 0
             /\ raw' = <<>>
             /\ result' = <<>>
             /\ err' = "UnmatchedRegion"
             /\ errArg' = Head(Unpaired(template_text)).name]_vars

\* the scan failed naming a BEGIN line that has no END, in a text with a paired block
C8_Witness ==
    /\ Raised
    /\ err = "UnmatchedRegion"
    /\ LET lone == WithoutEnd(template_text)
       IN  \E i \in 1..Len(lone) : lone[i].name = errArg
    /\ LET begins == BLOCK_BEGIN_RE(template_text)
       IN  \E j \in 1..Len(begins) : Paired(template_text, begins[j])

\* C9: a template without markers is returned unchanged whatever the spec, with
\* no context built and no provider call.  (The scan step of such a template
\* ends the call with the template as result, and no step follows a return.)
C9_NoMarkersReturnedUnchanged ==
    [][/\ ~Finished
       /\ (pc = "find_regions" /\ NoMarkers(template_text)) =>
             /\ Returned'
             /\ result' = template_text
             /\ calls' = 0
             /\ ctx' = <<>>
             /\ raw' = <<>>
             /\ err' = "none"]_vars

\* a non-empty template without markers came back unchanged under a spec whose
\* clock frequency is zero
C9_Witness ==
    /\ Returned
    /\ NoMarkers(template_text)
    /\ Len(template_text) > 1
    /\ spec.clock_mhz = Num(0)
    /\ result = template_text

\* C10: a call that fails, fails with one of the engine's five error kinds.
C10_OnlyEngineErrors == Raised => err \in EngineErrors

\* C11: the merge step is reached, and a merged text returned, only with a
\* response that parsed whole and a patch set that passed every check (each
\* patched name a region name given by the response, no code with a denylisted
\* token); before the merge step and after any failure no text has been produced.
C11_MergeOnlyAfterValidation ==
    /\ (pc = "apply" \/ (Returned /\ regions # <<>>)) =>
          /\ raw # <<>>
          /\ WellFormed(raw[1])
          /\ \A i \in 1..Len(patches) :
                 /\ patches[i].k \in RegionNames(regions)
                 /\ patches[i].k \in NamedBy(raw[1])
                 /\ ~Denylisted(patches[i].v)
    /\ ~Returned => result = <<>>
    /\ Raised => err # "none"

\* a merge of two patches was returned
C11_Witness ==
    /\ Returned
    /\ Len(patches) = 2
    /\ result # template_text

\* C15 as stated: every response whose edit names are a subset of the region
\* names passes validation and the call returns text (stated for the responses
\* the parser accepts).
C15_SubsetAlwaysReturns ==
    (/\ Finished
     /\ raw # <<>>
     /\ WellFormed(raw[1])
     /\ NamedBy(raw[1]) \subseteq RegionNames(regions))
        => Returned

\* C15 as amended: a response that the parser accepts, whose edit names are a
\* subset of the region names (the empty subset included) and none of whose codes
\* holds a denylisted token, never fails: it passes parsing and validation and
\* the call returns text.  The no-op adapter's response is such a response, and
\* its patch set is empty.
C15_SubsetWithoutDenylistedReturns ==
    /\ (/\ raw # <<>>
        /\ WellFormed(raw[1])
        /\ NamedBy(raw[1]) \subseteq RegionNames(regions)
        /\ ~HasDenylistedEntry(raw[1]))
          => /\ pc \in {"parse", "validate", "apply", "returned"}
             /\ err = "none"
             /\ Returned => result # <<>>
    /\ (raw = <<EchoAdapter_complete(<<>>, <<template_text, regions, ctx>>)>>)
          => /\ pc \in {"parse", "validate", "apply", "returned"}
             /\ pc # "parse" => patches = <<>>

\* a call on two regions returned with a patch for one of them only
C15_Witness ==
    /\ Returned
    /\ Len(regions) = 2
    /\ Len(patches) = 1
    /\ NamedBy(raw[1]) \subseteq RegionNames(regions)

\* C20: the provider is called at most once in a call; it has been called exactly
\* when the call has passed the provider step, which needs a scan that found a
\* region and a context that was built; a call that failed in the scan, returned
\* for want of regions or failed in the context builder made no call, and a failure
\* in parsing or validation leaves the count at one.
C20_AtMostOneProviderCall ==
    /\ calls \in {0, 1}
    /\ calls = 1 <=> raw # <<>>
    /\ calls = 1 <=> (regions # <<>> /\ ctx # <<>> /\ pc # "complete")
    /\ (Raised /\ err \in {"UnmatchedRegion", "DuplicateRegionName"}) => calls = 0
    /\ (Returned /\ regions = <<>>) => calls = 0
    /\ (Raised /\ err \in {"InvalidProviderOutput", "UnknownRegionReference",
                           "ForbiddenToken"}) => calls = 1

\* the call failed in validation, after its one provider call
C20_Witness ==
    /\ Raised
    /\ err = "ForbiddenToken"
    /\ calls = 1

\* a line that is blank, a full-line comment or a placeholder comment
IsFillerLine(line) ==
    LET l == NoSpaces(line)
    IN  \/ l = <<>>
        \/ Head(l) = LineCommentOpen
        \/ Head(l) = BlockCommentOpen /\ l[Len(l)] = BlockCommentClose

\* from the end p of a line: the offset of the first atom that is not a space on
\* the first following line that is no filler line, the end of the text if all are
RECURSIVE FillerRunLimit(_, _)
FillerRunLimit(text, p) ==
    IF p >= Len(text) THEN Len(text)
    ELSE LET line == Slice(text, p + 1, LineEnd(text, p + 1))
         IN  IF IsFillerLine(line) THEN FillerRunLimit(text, LineEnd(text, p + 1))
             ELSE p + 1 + SpaceStar(line, 0)

\* C16: the span of a single-line region starts right after its marker line and
\* ends no later than the first following line that is not blank, a full-line
\* comment or a placeholder comment: nothing of that line but its indentation,
\* and nothing of a later line, is in the span.
C16_SpanIsFillerRun ==
    \A i \in 1..Len(regions) :
        regions[i].kind = "single" =>
            /\ \E j \in 1..Len(SINGLE_LINE_RE(template_text)) :
                   SINGLE_LINE_RE(template_text)[j].end = regions[i].start_idx
            /\ regions[i].end_idx <= FillerRunLimit(template_text, regions[i].start_idx)

\* the line of a text that starts at offset p
LineAt(text, p) == Slice(text, p, LineEnd(text, p))

\* the BEGIN line of the block region r
BeginLineOf(text, r) ==
    LET begins == SelectSeq(BLOCK_BEGIN_RE(text), LAMBDA m : m.end = r.start_idx)
    IN  Slice(text, Head(begins).start, Head(begins).end)

\* C17: for a block region with a patch, the returned text holds the BEGIN line,
\* a newline, the normalized code, a newline and the END line in a row.
C17_BlockReplacedBetweenMarkers ==
    Returned =>
        \A i \in 1..Len(regions) :
            (regions[i].kind = "block" /\ ~Unpatched(regions[i])) =>
                Fits(result,
                     <<Hole,
                       Fixed(BeginLineOf(template_text, regions[i]) \o <<NL>>
                               \o _normalize_code(PatchFor(patches, regions[i])) \o <<NL>>
                               \o LineAt(template_text, regions[i].end_idx)),
                       Hole>>)

\* all spans of the original text replaced at once: the text up to each span as
\* it stands in the original, then the span's replacement
RECURSIVE Simultaneous(_, _, _, _)
Simultaneous(text, rs, ps, from) ==
    IF rs = <<>> THEN SliceFrom(text, from)
    ELSE Slice(text, from, Head(rs).start_idx) \o <<NL>>
            \o RStrip(_normalize_code(PatchFor(ps, Head(rs)))) \o <<NL>>
            \o Simultaneous(text, Tail(rs), ps, Head(rs).end_idx)

\* C18: the text merged one region at a time in descending start order is the
\* text with all spans of the original replaced at once.
C18_SequentialIsSimultaneous ==
    (Returned /\ regions # <<>>)
        => result = Simultaneous(template_text, regions, patches, 0)

\* C19: every region of a successful scan lies in the text, 0 <= start_idx <=
\* end_idx <= len(text), and its original_text is the text between its offsets; the
\* span of a single-line region is no longer than the look-ahead window, for the
\* window of 600 and for every shorter window the scan is tried with.
C19_RegionOffsetsInText ==
    /\ \A i \in 1..Len(regions) :
           LET r == regions[i]
           IN  /\ 0 <= r.start_idx
               /\ r.start_idx <= r.end_idx
               /\ r.end_idx <= Len(template_text)
               /\ r.original_text = SubSeq(template_text, r.start_idx + 1, r.end_idx)
               /\ r.kind = "single" => r.end_idx - r.start_idx <= LookAheadWindow
    /\ \A w \in 0..MaxWindow :
           LET ms == SINGLE_LINE_RE(template_text)
           IN  \A j \in 1..Len(ms) :
                   LET r == SingleRegionWithin(template_text, ms[j], w)
                   IN  /\ r.start_idx = ms[j].end
                       /\ r.start_idx <= r.end_idx
                       /\ r.end_idx <= Len(template_text)
                       /\ r.end_idx - r.start_idx <= w
                       /\ r.original_text = SubSeq(template_text, r.start_idx + 1, r.end_idx)

\* the scan found a block region and a single-line region with text in their
\* spans, and a window of MaxWindow cuts the span of the single-line region short
C19_Witness ==
    /\ \E i, j \in 1..Len(regions) :
           /\ regions[i].kind = "block"
           /\ regions[i].end_idx > regions[i].start_idx + 1
           /\ regions[j].kind = "single"
           /\ regions[j].end_idx - regions[j].start_idx > MaxWindow
    /\ LET ms == SINGLE_LINE_RE(template_text)
       IN  \E j \in 1..Len(ms) :
               LET r == SingleRegionWithin(template_text, ms[j], MaxWindow)
               IN  r.end_idx - r.start_idx = MaxWindow

\* a response as the spec describes it: after an optional fence, an object whose
\* edits is a sequence of objects each with a name and a code that is a string
Conforms(response) ==
    /\ FenceStripped(response) = "edits"
    /\ \A i \in 1..Len(response.edits) :
           LET e == response.edits[i]
           IN  e.object /\ e.has_name /\ e.has_code /\ e.code_type = "str"

\* C13: a response of any other shape than an object (bare or in a fence) whose
\* edits is a sequence of entries with a name and a string code makes the call
\* fail with the invalid-provider-output error, and nothing is merged.
C13_OtherShapesRejected ==
    (Finished /\ raw # <<>> /\ ~Conforms(raw[1]))
        => Raised /\ err = "InvalidProviderOutput" /\ result = <<>>

\* the cycle count the context holds for the timing entry, -1 if it holds none
CyclesOf(c) == DictGet(c.timing_cycles, ReplaceNs(TimingKey), -1)

\* n * p >= v for a whole number n and floats p and v, in exact arithmetic
Covers(n, p, v) ==
    n * p.m * Pow2(p.e - Min(p.e, v.e)) >= v.m * Pow2(v.e - Min(p.e, v.e))

\* C12: for a timing value v that parsed as a number and a positive clock period
\* p, the cycle count of the context is the smallest integer n with n * p >= v (v
\* and p the floats the builder divides): it covers the required nanoseconds,
\* and one cycle less does not.
C12_CyclesAreCeiling ==
    ctx # <<>> =>
        LET v == FloatOfTenths(spec.timing.items[1].v.v)
            p == ctx[1].clk_ns
            n == CyclesOf(ctx[1])
        IN  /\ n >= 0
            /\ Covers(n, p, v)
            /\ n > 0 => ~Covers(n - 1, p, v)

\* a call run alone from its start to its end, the provider answering with response
RECURSIVE RunAlone(_, _)
RunAlone(f, response) ==
    IF f.pc \in {"returned", "raised"} THEN f ELSE RunAlone(CallStep(f, response), response)

\* what the caller gets: a text, or a failure with what it carries
Outcome(f) == <<f.pc, f.result, f.err, f.errArg>>

\* the finished call of frame f ended as the same call ends when run alone with
\* the provider response it got (any response if it never asked)
AsAlone(f) ==
    f.pc \in {"returned", "raised"} =>
        Outcome(f) =
            Outcome(RunAlone(NewCall(f.template_text, f.spec, f.clk_ns),
                             IF f.raw = <<>> THEN EchoAdapter_complete(<<>>, <<>>)
                             ELSE f.raw[1]))

\* C14: of two calls on one engine whose stages interleave in any order, each ends
\* as it ends when run alone (same text, or same failure); a step of one call
\* leaves the frame of the other as it was, and the engine's one field, the
\* provider set at construction, is never written.
C14_InterleavedCallsRunAsAlone ==
    /\ [](AsAlone(FirstFrame) /\ AsAlone(second) /\ DOMAIN self = {"provider"})
    /\ [][/\ self' = self
          /\ FirstFrame' = FirstFrame \/ second' = second]_vars

\* both calls are past their provider call at once, on different templates and
\* with different responses
C14_Witness ==
    /\ pc = "validate"
    /\ second.pc = "validate"
    /\ template_text # second.template_text
    /\ raw # second.raw

(* ------------------------------- C21 ----------------------------------- *)

\* the frequency the period is derived from when the caller gives none
Frequency ==
    IF spec.sim = "dict" /\ spec.clock_mhz # Absent THEN spec.clock_mhz
    ELSE Num(DefaultClockMhz)

\* a clock period can be had: the caller gives one, or the frequency is a
\* number other than zero
ClockUsable == clk_ns # NoOverride \/ (Frequency.t = "num" /\ Frequency.v # 0)

TimingItems == spec.timing.items

\* the entries the loop stores: the value is a finite number and the period is
\* not zero
Kept ==
    {i \in 1..Len(TimingItems) : TimingItems[i].v.t = "num" /\ ctx[1].clk_ns.m # 0}

\* the key with its final "_ns" replaced
SuffixReplaced(k) ==
    IF k # <<>> /\ k[Len(k)] = "_ns" THEN SubSeq(k, 1, Len(k) - 1) \o <<"_cycles">>
    ELSE k

NamedPeriod ==
    IF clk_ns # NoOverride THEN FloatOfTenths(clk_ns.v)
    ELSE Nearest(NsPerMhzPeriod, Frequency.v, 0)

\* C22: the clock period of the context, and the one every cycle count is
\* computed with, is the override when the caller passes one, whatever the
\* frequency of the spec (even one that cannot be used); otherwise it is 1000
\* divided by the frequency, 100 MHz when the field or the whole simulation
\* sub-object is missing.
C22_PeriodIsOverrideElseFrequency ==
    /\ (pc # "find_regions" /\ clk_ns # NoOverride) => pc # "raised"
    /\ ctx # <<>> =>
        /\ ctx[1].clk_ns = NamedPeriod
        /\ \A j \in 1..Len(ctx[1].timing_cycles) : \E i \in 1..Len(TimingItems) :
              /\ TimingItems[i].v.t = "num"
              /\ ctx[1].timing_cycles[j].v
                     = Ceil(FloatDiv(FloatOfTenths(TimingItems[i].v.v), NamedPeriod))

\* an override is used although the spec gives a frequency of 250 MHz
C22_Witness ==
    /\ ctx # <<>>
    /\ clk_ns = Num(20)
    /\ spec.sim = "dict"
    /\ spec.clock_mhz = Num(250)
    /\ ctx[1].clk_ns = FloatOfWhole(2)
    /\ ctx[1].timing_cycles # <<>>

(* ------------------------------- C23 ----------------------------------- *)

\* s is a run of consecutive atoms of t
InfixOf(s, t) ==
    \E i \in 0..(Len(t) - Len(s)) : Slice(t, i, i + Len(s)) = s

\* the text put in the span of region r: the newline, the code, the newline
Inserted(r) == <<NL>> \o RStrip(_normalize_code(PatchFor(patches, r))) \o <<NL>>

\* C23: after a successful call no code put into the returned text holds a
\* denylisted token, and neither does the returned text: each inserted code is
\* a run of consecutive atoms of the code of its patch, which was checked as the
\* provider gave it.
C23_InsertedCodeWasChecked ==
    (Returned /\ regions # <<>>) =>
        /\ ~Denylisted(result)
        /\ \A i \in 1..Len(regions) :
              /\ ~Denylisted(Inserted(regions[i]))
              /\ ~Denylisted(PatchFor(patches, regions[i]))
              /\ InfixOf(RStrip(_normalize_code(PatchFor(patches, regions[i]))),
                         PatchFor(patches, regions[i]))
              /\ InfixOf(Inserted(regions[i]), result)

\* a fenced code was stripped of its fence and merged
C23_Witness ==
    /\ Returned
    /\ Len(regions) = 1
    /\ PatchFor(patches, regions[1]) = <<Fence, "sv", NL, "y", SP, Fence>>
    /\ InfixOf(<<NL, "y", NL>>, result)
    /\ ~Contains(result, Fence)

(* ------------------------------- C24 ----------------------------------- *)

Edits == raw[1].edits

TrimmedName(e) == Strip(e.name)

\* the entry at i is the last one of its trimmed name
IsLastOfName(i) ==
    \A j \in 1..Len(Edits) : TrimmedName(Edits[j]) = TrimmedName(Edits[i]) => j <= i

\* the response with, for each trimmed name, one entry at the place of the first
\* entry of that name and with the code of the last
RECURSIVE LastOnly(_, _)
LastOnly(es, seen) ==
    IF es = <<>> THEN <<>>
    ELSE IF TrimmedName(Head(es)) \in seen THEN LastOnly(Tail(es), seen)
    ELSE LET same == SelectSeq(es, LAMBDA e : TrimmedName(e) = TrimmedName(Head(es)))
         IN  <<same[Len(same)]>> \o LastOnly(Tail(es), seen \cup {TrimmedName(Head(es))})

\* C24: once a response is parsed the patch set has one entry per trimmed name,
\* holding the code of the last entry of that name; and the call ends as it ends
\* on the response without the earlier entries of a repeated name (same text, or
\* same failure), so these are neither merged nor validated.
C24_LastEntryOfNameWins ==
    /\ pc \in {"validate", "apply", "returned"} =>
          /\ Len(patches) = Cardinality({TrimmedName(Edits[i]) : i \in 1..Len(Edits)})
          /\ \A i \in 1..Len(Edits) :
                IsLastOfName(i) =>
                    /\ DictHas(patches, TrimmedName(Edits[i]))
                    /\ DictGet(patches, TrimmedName(Edits[i]), <<>>) = Edits[i].code
    /\ (Finished /\ raw # <<>>) =>
          Outcome(FirstFrame) =
              Outcome(RunAlone(NewCall(template_text, spec, clk_ns),
                               Response("none", "edits", LastOnly(Edits, {}))))

\* a denylisted code for A, then a clean code for the same name once trimmed:
\* the call returns with the clean code merged
C24_Witness ==
    /\ Returned
    /\ raw # <<>>
    /\ Len(Edits) = 2
    /\ Edits[1] = Entry(<<"A">>, <<Fence, "$fopen", Fence>>)
    /\ Edits[2] = Entry(<<SP, "A", SP>>, <<"y">>)
    /\ InfixOf(<<NL, "y", NL>>, result)

(* ------------------------------- C26 ----------------------------------- *)

\* the template has block regions and no single-line marker
OnlyBlocks(text) == SINGLE_LINE_RE(text) = <<>> /\ BLOCK_BEGIN_RE(text) # <<>>

\* no line of the code, as it is inserted, is a marker line
NoMarkerLines(code) ==
    /\ RegionMarkers(<<NL>> \o _normalize_code(code)) = <<>>
    /\ EndMarkers(<<NL>> \o _normalize_code(code)) = <<>>

NextEnd(text, b) ==
    LET after == SelectSeq(EndMarkers(text), LAMBDA e : e.start > b.end)
    IN  IF after = <<>> THEN <<>> ELSE <<Head(after)>>

\* a BEGIN line stands between another BEGIN line and the END line that follows
\* that one first: blocks nested or interleaved
Nested(text) ==
    LET begins == BLOCK_BEGIN_RE(text)
    IN  \E i, j \in 1..Len(begins) :
            /\ begins[i].start < begins[j].start
            /\ NextEnd(text, begins[i]) # <<>>
            /\ begins[j].start < NextEnd(text, begins[i])[1].start

\* C25 (as amended): each BEGIN line is paired with the END line that follows it
\* first.  If some BEGIN line has no END line after it or one of another name
\* first, the scan fails with the unmatched-region error naming the first such
\* BEGIN line of the text, even when an END line of the right name comes later;
\* nested or interleaved blocks are always rejected; otherwise no such error is
\* raised, every block region ends at the END line that follows its BEGIN line
\* first, and the END lines that follow no BEGIN line are passed over.
C25_BeginPairsWithNextEnd ==
    pc # "find_regions" =>
        /\ Unpaired(template_text) # <<>> =>
              /\ Raised
              /\ err = "UnmatchedRegion"
              /\ errArg = Head(Unpaired(template_text)).name
        /\ Unpaired(template_text) = <<>> => err # "UnmatchedRegion"
        /\ Nested(template_text) =>
              Raised /\ err \in {"UnmatchedRegion", "DuplicateRegionName"}
        /\ \A i \in 1..Len(regions) :
              regions[i].kind = "block" =>
                  \E k \in 1..Len(BLOCK_BEGIN_RE(template_text)) :
                      LET b == BLOCK_BEGIN_RE(template_text)[k]
                      IN  /\ b.end = regions[i].start_idx
                          /\ b.name = regions[i].name
                          /\ NextEnd(template_text, b)[1].start = regions[i].end_idx
                          /\ NextEnd(template_text, b)[1].name = regions[i].name

\* a BEGIN line whose next END line bears another name, its own END line coming
\* later: the scan fails naming it
C25_Witness ==
    /\ Raised
    /\ err = "UnmatchedRegion"
    /\ LET begins == BLOCK_BEGIN_RE(template_text)
       IN  /\ Len(begins) = 1
           /\ errArg = begins[1].name
           /\ HasEndAfter(template_text, begins[1])
           /\ NextEnd(template_text, begins[1])[1].name # begins[1].name

\* C25 (as stated): for every BEGIN line whose next END line names another
\* region, the scan fails with the unmatched-region error of that BEGIN line's
\* name.
C25_UnmatchedNamesItsBegin ==
    pc # "find_regions" =>
        \A k \in 1..Len(BLOCK_BEGIN_RE(template_text)) :
            LET b == BLOCK_BEGIN_RE(template_text)[k]
            IN  (NextEnd(template_text, b) # <<>>
                    /\ NextEnd(template_text, b)[1].name # b.name)
                => (Raised /\ err = "UnmatchedRegion" /\ errArg = b.name)

====
